---- MODULE Spec2Model ----
(***************************************************************************)
(* shmem-bind (src/src/lib.rs): named POSIX shared memory with a           *)
(* process-local ownership flag.  The model follows the library at the     *)
(* granularity of its system calls: Builder::open is shm_open(O_EXCL),     *)
(* ftruncate, shm_open (attach), mmap; the destruction cascade is          *)
(* drop_in_place, munmap, shm_unlink, close.  Several processes (or        *)
(* threads) run these calls interleaved against one system-wide name       *)
(* table.                                                                  *)
(***************************************************************************)
EXTENDS Integers, Sequences, FiniteSets, TLC

(* ------------------------------ bounds --------------------------------- *)
NumProcs == 2      \* processes / threads using the library
MaxObjs == 2       \* shared objects ever created (incarnations)
MaxOpens == 3      \* calls of open over the whole run
MaxVal == 1        \* payload values are 0..MaxVal

Procs == 1..NumProcs
Objs == 1..MaxObjs
Vals == 0..MaxVal

(* ------------------------- program constants --------------------------- *)
NUL == 0           \* the C string terminator
SizeOfT == 4       \* mem::size_of::<T>() of the stored type
NoObj == 0         \* "no object": a failed shm_open (fd < 0), an unbound name

\* Identifiers handed to Builder::new, as byte strings.
IdA == <<1>>
IdAB == <<1, 2>>
IdEmpty == << >>
IdNul == <<1, NUL>>
\* Names the system can bind an object to.
ObjNames == {IdA, IdAB}
\* Sizes handed to with_size (an i64).
Sizes == {-1, 0, SizeOfT}
\* The calls of open the model makes: every size under the valid names, and
\* the names the system or CString::new refuses.
OpenArgs == ({IdA, IdAB} \X Sizes) \cup ({IdEmpty, IdNul} \X {SizeOfT})
\* What the memory right after the String's buffer may hold: a NUL byte
\* (empty tail) or other bytes before the first NUL.
Tails == {<< >>, <<2>>}

\* Variant: a copy-on-write mapping.
MapFlagsPrivate == "MAP_PRIVATE"
\* The flags of the mmap call.
MapFlags == "MAP_SHARED"

(* ------------------------------ state ---------------------------------- *)
VARIABLES
    h,          \* per process: the open call in progress, the ShmemConf / ShmemBox
    shm,        \* the system's name table: name -> object
    objLen,     \* allocated length of each object (0 right after creation)
    objVal,     \* the payload stored at offset 0 of each object
    nextObj,    \* next object to be created
    nameGen,    \* per name: how many times it has been unlinked
    objDtor,    \* per object: runs of the pointee destructor
    objUnlink,  \* per object: removal requests by descriptors attached to it
    ownerRet,   \* per object: opens that returned a descriptor with is_owner
    lastW,      \* per object: last value written through any handle
    stray,      \* some removal request has named another name than its own
    opens       \* calls of open so far

vars == <<h, shm, objLen, objVal, nextObj, nameGen, objDtor, objUnlink,
          ownerRet, lastW, stray, opens>>

NoVal == -1

\* A process that holds nothing.
IdleProc ==
    [pc |-> "idle", id |-> IdEmpty, size |-> 0, fd |-> NoObj, is_owner |-> FALSE,
     addr |-> "none", boxed |-> FALSE, err |-> "none",
     created |-> FALSE, sawExist |-> FALSE, gen |-> 0, leaking |-> FALSE,
     log |-> << >>, priv |-> NoVal]

Init ==
    /\ h = [p \in Procs |-> IdleProc]
    /\ shm = [n \in ObjNames |-> NoObj]
    /\ objLen = [o \in Objs |-> 0]
    /\ objVal = [o \in Objs |-> 0]
    /\ nextObj = 1
    /\ nameGen = [n \in ObjNames |-> 0]
    /\ objDtor = [o \in Objs |-> 0]
    /\ objUnlink = [o \in Objs |-> 0]
    /\ ownerRet = [o \in Objs |-> 0]
    /\ lastW = [o \in Objs |-> 0]
    /\ stray = FALSE
    /\ opens = 0

(* --------------------------- pure helpers ------------------------------ *)
\* A C string read: the bytes before the first NUL.
RECURSIVE CStr(_)
CStr(bytes) ==
    IF bytes = << >> \/ Head(bytes) = NUL THEN << >>
    ELSE <<Head(bytes)>> \o CStr(Tail(bytes))

HasNul(bytes) == \E i \in 1..Len(bytes) : bytes[i] = NUL

\* CString::new(id.as_bytes()).unwrap(), read by shm_open as a C string.
StorageId(id) == CStr(id \o <<NUL>>)

\* self.id.as_bytes().as_ptr() read by shm_unlink as a C string: the bytes
\* of the id followed by whatever lies behind the buffer.
RawId(id, tail) == CStr(id \o tail \o <<NUL>>)

\* The object bound to a name (NoObj if none).
Lookup(name) == IF name \in ObjNames THEN shm[name] ELSE NoObj

\* shm_open rejects an empty name (EINVAL).
NameValid(name) == name # << >>

\* ftruncate(fd, size) fails on a negative length.
FtruncateFails(size) == size < 0

\* mmap(.., size as usize, ..) fails (MAP_FAILED) on length 0 and on a
\* negative size, which the cast turns into a length above 2^63.
MmapFails(size) == size <= 0

\* munmap(addr, size as usize) fails on an address that is not a mapping's
\* (MAP_FAILED is not page aligned) and on length 0.
MunmapFails(addr, size) == addr # "mapped" \/ size <= 0

(* ------------------------- Builder::open ------------------------------- *)
\* Every variable but the process records and the call counter.
osVars == <<shm, objLen, objVal, nextObj, nameGen, objDtor, objUnlink,
            ownerRet, lastW, stray>>

Ended(p) == h[p].pc \in {"idle", "done", "err", "panic", "crashed"}

\* Builder::new(id).with_size(size).open(), up to the first system call:
\* CString::new(..).unwrap() panics on an interior NUL byte.
Open(p, id, size) ==
    /\ Ended(p)
    /\ opens < MaxOpens
    /\ opens' = opens + 1
    /\ h' = [h EXCEPT ![p] =
                [IdleProc EXCEPT !.id = id, !.size = size,
                                 !.pc = IF HasNul(id) THEN "panic"
                                        ELSE "shm_open_excl"]]
    /\ UNCHANGED osVars

\* Variant: the attaching shm_open is given another name than the create.
AttachIdOther(id) == StorageId(IF id = IdA THEN IdAB ELSE IdA)
\* The name the attaching (non-exclusive) shm_open is given.
AttachId(id) == StorageId(id)

\* shm_open(storage_id, O_CREAT | O_EXCL | O_RDWR, 0o600)
ShmOpenExcl(p) ==
    /\ h[p].pc = "shm_open_excl"
    /\ LET name == StorageId(h[p].id) IN
       IF ~NameValid(name) THEN
            \* fd < 0 and errno is not EEXIST
            /\ h' = [h EXCEPT ![p].pc = "err", ![p].err = "CreateFailedErr"]
            /\ UNCHANGED <<shm, nextObj>>
       ELSE IF Lookup(name) # NoObj THEN
            \* fd < 0 and errno = EEXIST
            /\ h' = [h EXCEPT ![p].pc = "shm_open_attach", ![p].sawExist = TRUE]
            /\ UNCHANGED <<shm, nextObj>>
       ELSE
            \* the object is created, with length 0
            /\ nextObj <= MaxObjs
            /\ shm' = [shm EXCEPT ![name] = nextObj]
            /\ nextObj' = nextObj + 1
            /\ h' = [h EXCEPT ![p].pc = "ftruncate", ![p].fd = nextObj,
                              ![p].created = TRUE, ![p].gen = nameGen[name]]
    /\ UNCHANGED <<objLen, objVal, nameGen, objDtor, objUnlink, ownerRet,
                   lastW, stray, opens>>

\* ftruncate(fd, self.size); on failure open returns AllocationFailedErr
\* and neither closes fd nor unlinks the object.
Ftruncate(p) ==
    /\ h[p].pc = "ftruncate"
    /\ IF FtruncateFails(h[p].size) THEN
            /\ h' = [h EXCEPT ![p].pc = "err", ![p].err = "AllocationFailedErr"]
            /\ UNCHANGED objLen
       ELSE
            /\ objLen' = [objLen EXCEPT ![h[p].fd] = h[p].size]
            /\ h' = [h EXCEPT ![p].pc = "mmap", ![p].is_owner = TRUE]
    /\ UNCHANGED <<shm, objVal, nextObj, nameGen, objDtor, objUnlink,
                   ownerRet, lastW, stray, opens>>

\* shm_open(storage_id, O_RDWR, 0o600) after EEXIST
ShmOpenAttach(p) ==
    /\ h[p].pc = "shm_open_attach"
    /\ LET name == AttachId(h[p].id)
           o == Lookup(name) IN
       IF o = NoObj THEN
            h' = [h EXCEPT ![p].pc = "err", ![p].err = "CreateFailedErr"]
       ELSE
            h' = [h EXCEPT ![p].pc = "mmap", ![p].fd = o, ![p].is_owner = FALSE,
                           ![p].gen = nameGen[StorageId(h[p].id)]]
    /\ UNCHANGED <<osVars, opens>>

\* The address mmap returns: a mapping, or MAP_FAILED (never null).
MmapResult(size) == IF MmapFails(size) THEN "MAP_FAILED" ELSE "mapped"

\* mmap(null, size as usize, PROT_READ | PROT_WRITE, MAP_SHARED, fd, 0),
\* then NonNull::new(addr).ok_or(NullPointerErr)
Mmap(p) ==
    /\ h[p].pc = "mmap"
    /\ LET a == MmapResult(h[p].size) IN
       IF a = "null" THEN
            /\ h' = [h EXCEPT ![p].pc = "err", ![p].err = "NullPointerErr"]
            /\ UNCHANGED ownerRet
       ELSE
            /\ h' = [h EXCEPT ![p].pc = "conf", ![p].addr = a]
            /\ ownerRet' = [ownerRet EXCEPT
                               ![h[p].fd] = IF h[p].is_owner THEN @ + 1 ELSE @]
    /\ UNCHANGED <<shm, objLen, objVal, nextObj, nameGen, objDtor, objUnlink,
                   lastW, stray, opens>>

(* ------------------------ ShmemConf / ShmemBox ------------------------- *)
\* ShmemConf::boxed
Boxed(p) ==
    /\ h[p].pc = "conf"
    /\ h' = [h EXCEPT ![p].pc = "box", ![p].boxed = TRUE]
    /\ UNCHANGED <<osVars, opens>>

\* Variant: own flips the flag.
OwnOwnerFlipped(cur) == ~cur
\* The flag ShmemBox::own leaves in the descriptor.
OwnOwner(cur) == TRUE

\* The handle ShmemBox::own returns for the handle it is given.
OwnResult(box) == [box EXCEPT !.is_owner = OwnOwner(box.is_owner)]

\* ShmemBox::own
Own(p) ==
    /\ h[p].pc = "box"
    /\ h' = [h EXCEPT ![p] = OwnResult(h[p])]
    /\ UNCHANGED <<osVars, opens>>

\* An access through the typed pointer faults when the address is no
\* mapping (SIGSEGV) or lies beyond the object's allocated length (SIGBUS).
AccessFaults(p) ==
    h[p].addr # "mapped" \/ objLen[h[p].fd] < h[p].size

\* What a read through the handle of p returns.
View(p) ==
    IF MapFlags = "MAP_SHARED" \/ h[p].priv = NoVal THEN objVal[h[p].fd]
    ELSE h[p].priv

\* DerefMut: *handle = v
Write(p, v) ==
    /\ h[p].pc = "box"
    /\ IF AccessFaults(p) THEN
            /\ h' = [h EXCEPT ![p].pc = "crashed"]
            /\ UNCHANGED <<objVal, lastW>>
       ELSE
            /\ lastW' = [lastW EXCEPT ![h[p].fd] = v]
            /\ IF MapFlags = "MAP_SHARED" THEN
                    /\ objVal' = [objVal EXCEPT ![h[p].fd] = v]
                    /\ UNCHANGED h
               ELSE
                    /\ h' = [h EXCEPT ![p].priv = v]
                    /\ UNCHANGED objVal
    /\ UNCHANGED <<shm, objLen, nextObj, nameGen, objDtor, objUnlink,
                   ownerRet, stray, opens>>

\* Deref: *handle yields View(p), or the access faults
Read(p) ==
    /\ h[p].pc = "box"
    /\ h' = [h EXCEPT ![p].pc = IF AccessFaults(p) THEN "crashed" ELSE @]
    /\ UNCHANGED <<osVars, opens>>

(* ------------------------ destruction cascade -------------------------- *)
\* Variant: removal requested before the unmap.
DropStepsUnlinkFirst == <<"drop_in_place", "shm_unlink", "munmap", "close">>
\* The order of the cascade: Drop for ShmemBox, then Drop for ShmemConf
\* (fields are dropped after the struct's own drop).
DropSteps == <<"drop_in_place", "munmap", "shm_unlink", "close">>

\* Variant: the cascade ignores is_owner.
StepAppliesAlways(step, boxed, is_owner) ==
    IF step = "drop_in_place" THEN boxed ELSE TRUE
\* Whether a step of the cascade is taken: the tests `if self.conf.is_owner`
\* of Drop for ShmemBox and `if self.is_owner` of Drop for ShmemConf.
StepApplies(step, boxed, is_owner) ==
    CASE step = "drop_in_place" -> boxed /\ is_owner
      [] step = "shm_unlink" -> is_owner
      [] OTHER -> TRUE

\* The step that follows position i of the cascade ("done" after the last).
NextDropStep(i, boxed, is_owner) ==
    LET later == {j \in (i + 1)..Len(DropSteps) :
                     StepApplies(DropSteps[j], boxed, is_owner)} IN
    IF later = {} THEN "done"
    ELSE DropSteps[CHOOSE j \in later : \A k \in later : j <= k]

StepIndex(step) == CHOOSE i \in 1..Len(DropSteps) : DropSteps[i] = step

After(p, step) == NextDropStep(StepIndex(step), h[p].boxed, h[p].is_owner)

\* A ShmemConf or ShmemBox goes out of scope.
DropStart(p) ==
    /\ h[p].pc \in {"conf", "box"}
    /\ h' = [h EXCEPT ![p].pc = NextDropStep(0, h[p].boxed, h[p].is_owner)]
    /\ UNCHANGED <<osVars, opens>>

\* Variant: leak leaves the flag as it is.
LeakOwnerKept(cur) == cur
\* The flag ShmemBox::leak leaves in the descriptor.
LeakOwner(cur) == FALSE

\* ShmemBox::leak: clears the flag; the box is then dropped at the end of
\* the function.
Leak(p) ==
    /\ h[p].pc = "box"
    /\ LET o == LeakOwner(h[p].is_owner) IN
       h' = [h EXCEPT ![p].is_owner = o, ![p].leaking = TRUE,
                      ![p].pc = NextDropStep(0, TRUE, o)]
    /\ UNCHANGED <<osVars, opens>>

\* Whether the destructor of T faults: it may, where an access to the
\* pointee faults (a T whose drop glue reads it), and it may not (a T
\* without drop glue).
DtorFaults(p) == IF AccessFaults(p) THEN {TRUE, FALSE} ELSE {FALSE}

\* Drop for ShmemBox: drop_in_place(self.ptr)
DropInPlace(p) ==
    /\ h[p].pc = "drop_in_place"
    /\ \E faults \in DtorFaults(p) :
         IF faults THEN
            /\ h' = [h EXCEPT ![p].pc = "crashed"]
            /\ UNCHANGED objDtor
         ELSE
            /\ objDtor' = [objDtor EXCEPT ![h[p].fd] = @ + 1]
            /\ h' = [h EXCEPT ![p].log = Append(@, "drop_in_place"),
                              ![p].pc = After(p, "drop_in_place")]
    /\ UNCHANGED <<shm, objLen, objVal, nextObj, nameGen, objUnlink,
                   ownerRet, lastW, stray, opens>>

\* Variant: a failed step is ignored and the cascade goes on.
FailedStepIgnored(p, step) == After(p, step)
\* Where a failed step of Drop for ShmemConf leads: panic!(..)
FailedStep(p, step) == "panic"

\* Drop for ShmemConf: munmap(self.addr, self.size as usize), panic on failure
Munmap(p) ==
    /\ h[p].pc = "munmap"
    /\ IF MunmapFails(h[p].addr, h[p].size) THEN
            h' = [h EXCEPT ![p].log = Append(@, "munmap"),
                           ![p].pc = FailedStep(p, "munmap")]
       ELSE
            h' = [h EXCEPT ![p].log = Append(@, "munmap"),
                           ![p].addr = "unmapped",
                           ![p].pc = After(p, "munmap")]
    /\ UNCHANGED <<osVars, opens>>

\* Drop for ShmemConf: shm_unlink(self.id.as_bytes().as_ptr()), panic on
\* failure.  The pointer is to the String's bytes, which no NUL terminates.
ShmUnlink(p, tail) ==
    /\ h[p].pc = "shm_unlink"
    /\ objUnlink' = [objUnlink EXCEPT ![h[p].fd] = @ + 1]
    /\ stray' = (stray \/ RawId(h[p].id, tail) # StorageId(h[p].id))
    /\ LET name == RawId(h[p].id, tail) IN
       IF Lookup(name) = NoObj THEN
            \* ENOENT
            /\ h' = [h EXCEPT ![p].log = Append(@, "shm_unlink"),
                              ![p].pc = FailedStep(p, "shm_unlink")]
            /\ UNCHANGED <<shm, nameGen>>
       ELSE
            /\ shm' = [shm EXCEPT ![name] = NoObj]
            /\ nameGen' = [nameGen EXCEPT ![name] = @ + 1]
            /\ h' = [h EXCEPT ![p].log = Append(@, "shm_unlink"),
                              ![p].pc = After(p, "shm_unlink")]
    /\ UNCHANGED <<objLen, objVal, nextObj, objDtor, ownerRet, lastW, opens>>

\* Drop for ShmemConf: close(self.fd)
Close(p) ==
    /\ h[p].pc = "close"
    /\ h' = [h EXCEPT ![p].log = Append(@, "close"),
                      ![p].pc = After(p, "close")]
    /\ UNCHANGED <<osVars, opens>>

(* --------------------------- specification ----------------------------- *)
Next ==
    \E p \in Procs :
        \/ \E a \in OpenArgs : Open(p, a[1], a[2])
        \/ ShmOpenExcl(p)
        \/ Ftruncate(p)
        \/ ShmOpenAttach(p)
        \/ Mmap(p)
        \/ Boxed(p)
        \/ Own(p)
        \/ \E v \in Vals : Write(p, v)
        \/ Read(p)
        \/ DropStart(p)
        \/ Leak(p)
        \/ DropInPlace(p)
        \/ Munmap(p)
        \/ \E tail \in Tails : ShmUnlink(p, tail)
        \/ Close(p)

Spec == Init /\ [][Next]_vars

(* ------------------------------ claims --------------------------------- *)
Created == 1..(nextObj - 1)

\* p holds a ShmemConf or ShmemBox.
Live(p) == h[p].pc \in {"conf", "box"}

\* The destruction of a descriptor that open returned has ended, by its
\* last step or by a panic.
DropEnded(p) == h[p].pc \in {"done", "panic"} /\ h[p].addr # "none"

Logged(p, step) == \E i \in 1..Len(h[p].log) : h[p].log[i] = step

\* The open that created o is no longer running.
CreatorReturned(o) ==
    ~\E p \in Procs : /\ h[p].fd = o
                      /\ h[p].created
                      /\ h[p].pc \in {"ftruncate", "mmap"}

\* C1 (as claimed): of the opens of one name with no removal in between,
\* that is of the opens of one object, exactly one returns a descriptor with
\* is_owner() = true: never more than one, and once the creating open has
\* returned, every descriptor of the object coexists with exactly one
\* returned owner descriptor.
C1_ExactlyOneOwner ==
    \A o \in Created :
        /\ ownerRet[o] <= 1
        /\ (CreatorReturned(o) /\ \E p \in Procs : Live(p) /\ h[p].fd = o)
               => ownerRet[o] = 1

\* C2: no step of ShmemBox::leak runs the pointee destructor, requests a
\* removal, unbinds a name or changes a payload: after leak the object is
\* still bound to its name with the value written before.
C2_LeakKeepsObject ==
    [][\A p \in Procs :
          (h'[p].leaking /\ h'[p] # h[p]) =>
              /\ shm' = shm
              /\ objVal' = objVal
              /\ objDtor' = objDtor
              /\ objUnlink' = objUnlink]_vars

\* C2 witness: a creator has written 1 and finished leak; another process
\* then attached to the same object as non-owner and reads 1.
C2_Witness ==
    \E p, q \in Procs :
        /\ h[p].pc = "done" /\ h[p].leaking /\ h[p].created
        /\ h[q].pc = "box" /\ ~h[q].created /\ ~h[q].is_owner
        /\ h[q].fd = h[p].fd /\ h[q].id = h[p].id
        /\ ~AccessFaults(q) /\ View(q) = 1

\* C3 (as claimed): once a handle that attached (did not create) to an
\* object of SizeOfT bytes, mapped it and called own has been destroyed, its
\* name is no longer bound to the object it was attached to.
C3_OwnThenDropRemoves ==
    \A p \in Procs :
        ( /\ h[p].pc \in {"done", "panic"}
          /\ h[p].boxed /\ ~h[p].created /\ h[p].is_owner /\ ~h[p].leaking
          /\ h[p].size = SizeOfT /\ objLen[h[p].fd] = SizeOfT
          /\ h[p].addr = "unmapped" )
        => Lookup(StorageId(h[p].id)) # h[p].fd

\* C4 (as claimed), for descriptors with a valid mapping, in runs where
\* every removal request has named its own object: once destroyed, unmap
\* and close were performed, removal was requested iff is_owner, and the
\* pointee destructor of a box ran iff is_owner.
C4_AlwaysUnmapAndClose ==
    \A p \in Procs :
        ( /\ DropEnded(p)
          /\ h[p].size = SizeOfT
          /\ ~stray )
        => /\ Logged(p, "munmap")
           /\ Logged(p, "close")
           /\ Logged(p, "shm_unlink") <=> h[p].is_owner
           /\ Logged(p, "drop_in_place") <=> (h[p].boxed /\ h[p].is_owner)

\* C4 (amended): once the destruction of a descriptor has ended (by its last
\* step or by a panic), the unmap was attempted;
\* removal was requested iff is_owner and the unmap succeeded; close was
\* performed iff no earlier step failed; the pointee destructor ran iff the
\* descriptor was in a box and is_owner.
C4_CascadeByOwner ==
    \A p \in Procs :
        DropEnded(p) =>
            /\ Logged(p, "munmap")
            /\ Logged(p, "shm_unlink") <=>
                   (h[p].is_owner /\ h[p].addr = "unmapped")
            /\ Logged(p, "close") <=> (h[p].pc = "done")
            /\ Logged(p, "drop_in_place") <=> (h[p].boxed /\ h[p].is_owner)

\* C4 witness: an owner whose removal request failed: unmapped, removal
\* requested, not closed.
C4_Witness ==
    \E p \in Procs :
        /\ h[p].pc = "panic" /\ h[p].is_owner /\ ~stray
        /\ h[p].log = <<"munmap", "shm_unlink">>

\* The order C5 states.
C5_Rank(step) ==
    CASE step = "drop_in_place" -> 1
      [] step = "munmap" -> 2
      [] step = "shm_unlink" -> 3
      [] step = "close" -> 4

\* C5: the steps of every destruction occur in the order destructor, unmap,
\* removal, close; in particular the pointee is not touched after the unmap.
C5_CascadeOrder ==
    \A p \in Procs :
        \A i, j \in 1..Len(h[p].log) :
            i < j => C5_Rank(h[p].log[i]) < C5_Rank(h[p].log[j])

\* C5 witness: an owning box has gone through all four steps.
C5_Witness ==
    \E p \in Procs :
        /\ h[p].pc = "done"
        /\ h[p].log = <<"drop_in_place", "munmap", "shm_unlink", "close">>

\* C6 (as claimed): for one created object the pointee destructor runs at
\* most once and removal is requested at most once (stated for objects all
\* of whose handles map SizeOfT bytes, in runs where every removal request
\* has named its own object).
C6_AtMostOncePerObject ==
    \A o \in Objs :
        (~stray /\ \A p \in Procs : h[p].fd = o => h[p].size = SizeOfT)
        => (objDtor[o] <= 1 /\ objUnlink[o] <= 1)

\* A step of p performs `step` of the cascade for the first time, as a
\* handle whose flag is set and that was not leaked.
C6_FirstAsOwner(p, step) ==
    /\ h[p].is_owner /\ ~h[p].leaking
    /\ ~Logged(p, step)
    /\ h'[p].log = Append(h[p].log, step)

\* C6 (amended): every run of the pointee destructor and every removal
\* request for an object is made by a handle attached to it whose is_owner
\* flag is set, that was not leaked, and that has made none before: at most
\* one of each per handle destroyed as owner, none for a leaked handle.
C6_AtMostOncePerOwner ==
    [][\A o \in Objs :
          /\ objDtor'[o] # objDtor[o] =>
                /\ objDtor'[o] = objDtor[o] + 1
                /\ \E p \in Procs : /\ h[p].fd = o
                                    /\ C6_FirstAsOwner(p, "drop_in_place")
          /\ objUnlink'[o] # objUnlink[o] =>
                /\ objUnlink'[o] = objUnlink[o] + 1
                /\ \E p \in Procs : /\ h[p].fd = o
                                    /\ C6_FirstAsOwner(p, "shm_unlink")]_vars

\* C6 witness: ownership handed over: the creator leaked, an attached handle
\* called own and was destroyed; one destructor run, one removal request.
C6_Witness ==
    \E p, q \in Procs :
        /\ h[p].pc = "done" /\ h[p].leaking /\ h[p].created
        /\ h[q].pc = "done" /\ ~h[q].created /\ h[q].is_owner
        /\ h[q].fd = h[p].fd
        /\ objDtor[h[p].fd] = 1 /\ objUnlink[h[p].fd] = 1

\* p holds a descriptor with a valid mapping.
Mapped(p) == Live(p) /\ h[p].addr = "mapped"

\* C7 (as claimed): any two live descriptors opened with the same name
\* refer to the same object.
C7_SameNameSameObject ==
    \A p, q \in Procs :
        (Mapped(p) /\ Mapped(q) /\ h[p].id = h[q].id) => h[p].fd = h[q].fd

\* C7 (amended): any two live descriptors opened with the same name, with
\* no removal of that name between their opens, refer to the same object.
C7_SameNameSameObjectUnlessRemoved ==
    \A p, q \in Procs :
        (Live(p) /\ Live(q) /\ h[p].id = h[q].id /\ h[p].gen = h[q].gen)
        => h[p].fd = h[q].fd

\* C7 witness: a creator and an attached descriptor of one name, live
\* together on one object.
C7_Witness ==
    \E p, q \in Procs :
        /\ Mapped(p) /\ Mapped(q) /\ p # q
        /\ h[p].id = h[q].id /\ h[p].gen = h[q].gen
        /\ h[p].created /\ ~h[q].created

\* C8: two handles of the same name and size, the second opened while the
\* object existed, alias the same bytes: a read through either returns the
\* value last written through any of them.
C8_WriteVisible ==
    \A p, q \in Procs :
        ( /\ h[p].pc = "box" /\ h[q].pc = "box"
          /\ h[p].id = h[q].id /\ h[p].size = h[q].size
          /\ h[p].gen = h[q].gen
          /\ ~AccessFaults(p) /\ ~AccessFaults(q) )
        => /\ View(p) = View(q)
           /\ View(p) = lastW[h[p].fd]

\* C8 witness: two handles on one object, 1 written and read through both.
C8_Witness ==
    \E p, q \in Procs :
        /\ p # q /\ h[p].pc = "box" /\ h[q].pc = "box"
        /\ h[p].id = h[q].id /\ h[p].gen = h[q].gen
        /\ ~AccessFaults(p) /\ ~AccessFaults(q)
        /\ View(p) = 1 /\ View(q) = 1

\* C9 (as claimed): an open whose exclusive create found the object
\* existing never returns an error.
C9_LoserAlwaysAttaches ==
    \A p \in Procs :
        (h[p].sawExist /\ h[p].size = SizeOfT) => h[p].pc # "err"

\* C10 (as claimed): when open returns AllocationFailedErr, the object it
\* created is no longer bound to the name.
C10_NoLeakOnAllocationFailure ==
    \A p \in Procs :
        (h[p].pc = "err" /\ h[p].err = "AllocationFailedErr")
        => Lookup(StorageId(h[p].id)) # h[p].fd

\* C11 (as claimed): every descriptor open has returned carries the address
\* of a mapping of its object: a failed mmap makes open return an error.
C11_DescriptorIsMapped ==
    \A p \in Procs : Live(p) => h[p].addr = "mapped"

C13_DegenerateSizeHandled ==
    \A p \in Procs :
        h[p].size <= 0 =>
            /\ ~(h[p].pc = "panic" /\ h[p].addr = "none")
            /\ h[p].pc = "conf" => h[p].addr = "mapped"

\* C14: own is idempotent and changes nothing but the flag: for every handle,
\* own of the result of own is that result, own of an owning handle is the
\* handle itself, and the result differs from the handle in is_owner at
\* most (same name, native handle, address, size, pointer); a step that sets
\* the flag of a handle changes neither the system's objects nor any payload.
C14_OwnIdempotent ==
    /\ [](\A p \in Procs :
            h[p].pc = "box" =>
                LET r == OwnResult(h[p]) IN
                /\ OwnResult(r) = r
                /\ r.is_owner
                /\ h[p].is_owner => r = h[p]
                /\ [r EXCEPT !.is_owner = h[p].is_owner] = h[p])
    /\ [][\A p \in Procs :
            ( /\ h[p].pc = "box" /\ h'[p].pc = "box"
              /\ h'[p].is_owner # h[p].is_owner )
            => /\ h'[p] = OwnResult(h[p])
               /\ osVars' = osVars]_vars

\* C14 witness: a handle that attached (is_owner false from open) holds the
\* flag after own, on a valid mapping.
C14_Witness ==
    \E p \in Procs :
        /\ h[p].pc = "box" /\ ~h[p].created /\ h[p].is_owner
        /\ h[p].addr = "mapped"

\* C15 (as claimed): open never ends in a fatal state, every error it
\* returns is one of the three values, and a name the system rejects or
\* cannot represent yields CreateFailedErr.
C15_OpenNeverPanics ==
    \A p \in Procs :
        /\ ~(h[p].pc = "panic" /\ h[p].addr = "none")
        /\ h[p].pc = "err" =>
               h[p].err \in {"CreateFailedErr", "AllocationFailedErr",
                             "NullPointerErr"}
        /\ ( /\ HasNul(h[p].id) \/ ~NameValid(h[p].id)
             /\ h[p].pc \notin {"idle", "shm_open_excl"} )
           => (h[p].pc = "err" /\ h[p].err = "CreateFailedErr")

\* How many times a step of the cascade was performed for the descriptor.
Count(p, step) ==
    Cardinality({i \in 1..Len(h[p].log) : h[p].log[i] = step})

\* C16 (as claimed), for descriptors of SizeOfT bytes in runs where every
\* removal request has named its own object: once the destruction of a
\* descriptor has ended, unmap and close have each happened exactly once.
C16_UnmapAndCloseExactlyOnce ==
    \A p \in Procs :
        (DropEnded(p) /\ h[p].size = SizeOfT /\ ~stray) =>
            /\ Count(p, "munmap") = 1
            /\ Count(p, "close") = 1

\* C16 (amended): for every descriptor no step of the cascade happens twice;
\* once its destruction has ended, the unmap was attempted exactly once and
\* the close happened exactly once if no step failed and not at all
\* otherwise; leak runs no pointee destructor and requests no removal, and
\* a leak whose unmap succeeded consists of exactly one unmap and one close.
C16_LeakReleasesLocalOnly ==
    \A p \in Procs :
        /\ \A step \in {"drop_in_place", "munmap", "shm_unlink", "close"} :
               Count(p, step) <= 1
        /\ DropEnded(p) =>
               /\ Count(p, "munmap") = 1
               /\ Count(p, "close") = IF h[p].pc = "done" THEN 1 ELSE 0
        /\ h[p].leaking =>
               /\ Count(p, "drop_in_place") = 0
               /\ Count(p, "shm_unlink") = 0
               /\ (DropEnded(p) /\ h[p].addr = "unmapped")
                      => h[p].log = <<"munmap", "close">>

\* C16 witness: an attached handle was leaked: its region was unmapped and
\* its native handle closed, nothing else, and the object is still bound to
\* its name.
C16_Witness ==
    \E p \in Procs :
        /\ h[p].pc = "done" /\ h[p].leaking /\ ~h[p].created
        /\ h[p].log = <<"munmap", "close">>
        /\ Lookup(StorageId(h[p].id)) = h[p].fd

\* C17 (as claimed): no attaching open has returned a descriptor of an
\* object that its creator, opening with the same size, has not resized yet.
C17_NoAttachBeforeResize ==
    \A p, q \in Procs :
        ( /\ h[p].pc = "ftruncate" /\ h[p].size = SizeOfT
          /\ Live(q) /\ h[q].fd = h[p].fd
          /\ h[q].id = h[p].id /\ h[q].size = h[p].size )
        => objLen[h[q].fd] >= h[q].size

\* C18 (as claimed): an open that has returned an error holds no native
\* handle: one it had obtained has been closed.
C18_ErrorClosesHandle ==
    \A p \in Procs :
        h[p].pc = "err" => (h[p].fd = NoObj \/ Logged(p, "close"))

\* C19 (as claimed): a removal request of a descriptor names the name its
\* open used: it unbinds that name if an object is bound to it, and no other
\* name.
C19_RemovalNamesOwnObject ==
    [][\A p \in Procs :
          (h[p].pc = "shm_unlink" /\ h'[p] # h[p]) =>
              LET own == StorageId(h[p].id) IN
              /\ \A n \in ObjNames : shm'[n] # shm[n] => n = own
              /\ Lookup(own) # NoObj => shm'[own] = NoObj]_vars

====
